---- MODULE Spec2Model ----
(***************************************************************************)
(* Model of tools/utils.py.                                                *)
(*                                                                         *)
(*  - the result aggregator (update_perf_csv and its helpers), which       *)
(*    merges benchmark result artifacts into the report file perf.csv and  *)
(*    writes the side file perf_entry.csv;                                 *)
(*  - Console.sh, which runs a shell command under a timeout;              *)
(*  - Docker, the session that owns a container;                           *)
(*  - RunDetails, the record of one run and its two writers.               *)
(*                                                                         *)
(* Files are modelled as what is on disk: a header line and rows of text   *)
(* cells, by position.  DataFrames are modelled as what pandas holds in    *)
(* memory: an ordered list of column names and rows keyed by column name,  *)
(* whose cells are Python values.  read_csv and to_csv convert between the *)
(* two: read_csv types each column (integers, floats, or texts; an empty   *)
(* cell is NaN) and to_csv writes each value back as text (NaN and None as *)
(* the empty text).  Numbers are the few the inputs use; a float is held   *)
(* to one decimal.                                                         *)
(*                                                                         *)
(* Each part of the program has its own variables and its own              *)
(* specification; the variables of the other parts stay as Init sets them. *)
(***************************************************************************)
EXTENDS Integers, Sequences, FiniteSets, TLC

VARIABLES
    perf_csv,     \* the report file (perf_csv="perf.csv") on disk
    perf_entry_csv,   \* the side file perf_entry.csv on disk
    last,         \* the last update_perf_csv call: its arguments, the report before it, its outcome
    frame,        \* Console.sh: the arguments and locals of the call, and where it stands
    proc,         \* Console.sh: the child process of subprocess.Popen
    clock,        \* Console.sh: seconds since the child process was started
    log,          \* Console.sh: what went to the logger during the call, in order
    session,      \* Docker: the fields of the session object, and where it stands
    containers,   \* Docker: the containers the docker daemon holds
    issued,       \* Docker: the docker commands the session has run, in order
    run_details,  \* RunDetails: the attributes of the object, vars(self)
    json_file,    \* RunDetails: the file generate_json writes
    report_file,  \* RunDetails: the file generate_report writes
    wrote,        \* RunDetails: the last of the two writers called, and the attributes then
    callers,      \* two update_perf_csv calls at once: for each, where it stands and its locals
    writes,       \* two update_perf_csv calls at once: the callers that wrote the report, in order
    entry,        \* flatten_tags: the dict it is applied to, perf_entry
    trail,        \* flatten_tags: the dict as it was given and after each application
    raised        \* flatten_tags: the exception the last application raised, if any

perfVars == <<perf_csv, perf_entry_csv, last>>

consoleVars == <<frame, proc, clock, log>>

dockerVars == <<session, containers, issued>>

detailsVars == <<run_details, json_file, report_file, wrote>>

concurrentVars == <<callers, writes>>

flattenVars == <<entry, trail, raised>>

vars == <<perfVars, consoleVars, dockerVars, detailsVars, concurrentVars, flattenVars>>

otherThanPerf == <<consoleVars, dockerVars, detailsVars, concurrentVars, flattenVars>>

otherThanConsole == <<perfVars, dockerVars, detailsVars, concurrentVars, flattenVars>>

otherThanDocker == <<perfVars, consoleVars, detailsVars, concurrentVars, flattenVars>>

otherThanDetails == <<perfVars, consoleVars, dockerVars, concurrentVars, flattenVars>>

otherThanFiles == <<last, consoleVars, dockerVars, detailsVars, flattenVars>>

otherThanFlatten == <<perfVars, consoleVars, dockerVars, detailsVars, concurrentVars>>

Range(s) == {s[i] : i \in 1..Len(s)}

Pos(s, x) == CHOOSE j \in 1..Len(s) : s[j] = x

(* ------------------------- Python values ------------------------------ *)

Str(s) == [str |-> s]

NaN == [nan |-> TRUE]

PyNone == [none |-> TRUE]

PyList(xs) == [list |-> xs]

PyBool(b) == [bool |-> b]

PyInt(n) == [int |-> n]

\* a float, held as the number of its tenths: 10.5 is PyFloat(105)
PyFloat(tenths) == [float |-> tenths]

IsInt(v) == DOMAIN v = {"int"}

\* what a float64 column can hold
IsFloat64(v) == DOMAIN v \in {{"int"}, {"float"}, {"nan"}}

\* repr of a float: 10.0, 10.5
FloatText(tenths) == ToString(tenths \div 10) \o "." \o ToString(tenths % 10)

\* the value as a float64 column holds it
AsFloat64(v) == IF IsInt(v) THEN PyFloat(10 * v.int) ELSE v

\* the truth value of v, as `not v` and `if v` take it
Truthy(v) ==
    CASE DOMAIN v = {"bool"} -> v.bool
      [] DOMAIN v = {"str"} -> v.str # ""
      [] DOMAIN v = {"list"} -> v.list # <<>>
      [] DOMAIN v = {"nan"} -> TRUE
      [] OTHER -> FALSE

IsStr(v) == DOMAIN v = {"str"}

IsList(v) == DOMAIN v = {"list"}

\* str(v) for the values of the model
PyStr(v) ==
    CASE DOMAIN v = {"str"} -> v.str
      [] DOMAIN v = {"nan"} -> "nan"
      [] DOMAIN v = {"none"} -> "None"
      [] DOMAIN v = {"bool"} -> IF v.bool THEN "True" ELSE "False"
      [] DOMAIN v = {"int"} -> ToString(v.int)
      [] DOMAIN v = {"float"} -> FloatText(v.float)
      [] OTHER -> "[...]"

\* ",".join(str(item) for item in items)
RECURSIVE Join(_, _)
Join(items, sep) ==
    IF items = <<>> THEN ""
    ELSE IF Len(items) = 1 THEN PyStr(items[1])
    ELSE PyStr(items[1]) \o sep \o Join(Tail(items), sep)

\* v is not None and pd.notna(v)
NotNa(v) == DOMAIN v \notin {{"nan"}, {"none"}}

(* -------------- Python dicts (insertion-ordered mappings) ------------- *)
(* a dict is the sequence of its <<key, value>> items                      *)

Keys(d) == [i \in 1..Len(d) |-> d[i][1]]

HasKey(d, k) == \E i \in 1..Len(d) : d[i][1] = k

\* d[k]
Get(d, k) == d[CHOOSE i \in 1..Len(d) : d[i][1] = k][2]

\* d[k] = v : an existing key keeps its place, a new key goes last
DictSet(d, k, v) ==
    IF HasKey(d, k)
    THEN [i \in 1..Len(d) |-> IF d[i][1] = k THEN <<k, v>> ELSE d[i]]
    ELSE Append(d, <<k, v>>)

(* ----------------------------- files ---------------------------------- *)

NoFile == [exists |-> FALSE, header |-> <<>>, rows |-> <<>>]

\* str.strip on the header names that occur
strip(s) ==
    CASE s = " model" -> "model"
      [] s = "performance " -> "performance"
      [] s = " metric " -> "metric"
      [] OTHER -> s

(* ---------------------------- DataFrames ------------------------------ *)
(* columns: the column labels in order; rows: for each row its values, in  *)
(* the order of the columns.  A sequence written [i \in 1..n |-> e] is     *)
(* followed by \o <<>> where it is read many times: TLC then holds it as a *)
(* tuple of values and does not evaluate e anew at each reading.  For the  *)
(* same reason a value used more than once is passed as an argument (of a  *)
(* local operator, named after the step that follows) and not named in LET.*)

EmptyDataFrame == [columns |-> <<>>, rows |-> <<>>]

\* pd.DataFrame(columns=columns)
DataFrameColumns(columns) == [columns |-> columns, rows |-> <<>>]

\* pd.DataFrame(d, index=[0]) for a dict of scalars
DataFrameFromDict(d) ==
    [columns |-> Keys(d),
     rows    |-> << [j \in 1..Len(d) |-> d[j][2]] >>]

\* the texts pd.read_csv takes for a missing value, among those that occur
NaTexts == {"", "NA", "NaN", "nan", "null"}

\* a text cell as pd.read_csv parses it, for the texts that occur: a missing
\* value, an integer, a float, or else the text itself
ParseCell(text) ==
    CASE text \in NaTexts -> NaN
      [] text = "10" -> PyInt(10)
      [] text = "10.0" -> PyFloat(100)
      [] text = "5.0" -> PyFloat(50)
      [] text = "123.4" -> PyFloat(1234)
      [] OTHER -> Str(text)

\* a column as pd.read_csv types it: int64 when every cell is an integer,
\* float64 when every cell is a number or missing, and otherwise object, whose
\* cells keep their text
ParseColumn(texts) ==
    LET parsed == [i \in 1..Len(texts) |-> ParseCell(texts[i])]
    IN  IF \A i \in 1..Len(texts) : IsInt(parsed[i]) THEN parsed
        ELSE IF \A i \in 1..Len(texts) : IsFloat64(parsed[i])
             THEN [i \in 1..Len(texts) |-> AsFloat64(parsed[i])]
        ELSE [i \in 1..Len(texts) |->
                IF parsed[i] = NaN THEN NaN ELSE Str(texts[i])]

\* a value as DataFrame.to_csv writes it (na_rep = "")
CellText(v) ==
    CASE IsStr(v) -> v.str
      [] DOMAIN v \in {{"int"}, {"float"}} -> PyStr(v)
      [] OTHER -> ""

\* pd.read_csv(file)
read_csv(file) ==
    LET column(j) == ParseColumn([i \in 1..Len(file.rows) |-> file.rows[i][j]] \o <<>>)
        typed(columns) ==
            [columns |-> file.header,
             rows    |-> [i \in 1..Len(file.rows) |->
                            [j \in 1..Len(file.header) |-> columns[j][i]] \o <<>>] \o <<>>]
    IN  typed([j \in 1..Len(file.header) |-> column(j) \o <<>>] \o <<>>)

\* df.to_csv(path, index=False)
to_csv(df) ==
    [exists |-> TRUE,
     header |-> df.columns,
     rows   |-> [i \in 1..Len(df.rows) |->
                   [j \in 1..Len(df.columns) |-> CellText(df.rows[i][j])] \o <<>>] \o <<>>]

df_strip_columns(df) ==
    [columns |-> [j \in 1..Len(df.columns) |-> strip(df.columns[j])],
     rows    |-> df.rows]

\* df.to_dict(orient="records")
to_dict(df) ==
    [i \in 1..Len(df.rows) |->
        [c \in Range(df.columns) |-> df.rows[i][Pos(df.columns, c)]]]

\* mutant of Reindex: the values are taken by position, not by column label
ReindexByPosition(df, cols) ==
    [i \in 1..Len(df.rows) |->
        [j \in 1..Len(cols) |->
            IF j <= Len(df.columns) THEN df.rows[i][j] ELSE NaN]]

\* the rows of df on the columns cols, NaN where df has no such column
Reindex(df, cols) ==
    LET taken(have) ==
            [i \in 1..Len(df.rows) |->
                [j \in 1..Len(cols) |->
                    IF cols[j] \in have
                    THEN df.rows[i][Pos(df.columns, cols[j])] ELSE NaN] \o <<>>] \o <<>>
    IN  taken(Range(df.columns))

\* the type pd.concat gives the columns of the rows put together: a column of
\* integers with a float or a missing value among them becomes float64, a
\* column with a text (or None) in it is object and keeps its values
CommonType(rows, width) ==
    LET float64(j) == /\ \A i \in 1..Len(rows) : IsFloat64(rows[i][j])
                      /\ \E i \in 1..Len(rows) : ~IsInt(rows[i][j])
        typed(cast) ==
            [i \in 1..Len(rows) |->
                [j \in 1..width |->
                    IF cast[j] THEN AsFloat64(rows[i][j]) ELSE rows[i][j]] \o <<>>] \o <<>>
    IN  typed([j \in 1..width |-> float64(j)] \o <<>>)

\* mutant of concat: the columns of b that a does not have are dropped
concatLeftColumns(a, b) ==
    [columns |-> a.columns,
     rows    |-> CommonType(Reindex(a, a.columns) \o Reindex(b, a.columns), Len(a.columns))]

\* pd.concat([a, b]) : the union of the columns, a's first, then b's new ones
concat(a, b) ==
    LET joined(cols) ==
            [columns |-> cols,
             rows    |-> CommonType(Reindex(a, cols) \o Reindex(b, cols), Len(cols))]
    IN  joined(a.columns \o SelectSeq(b.columns, LAMBDA c : c \notin Range(a.columns)))

\* df[cols] : KeyError when a column of cols is not a column of df
getitem(df, cols) ==
    IF \E j \in 1..Len(cols) : cols[j] \notin Range(df.columns)
    THEN [err |-> "KeyError: not in index", df |-> df]
    ELSE [err |-> "ok", df |-> [columns |-> cols, rows |-> Reindex(df, cols)]]

(* ------------------------ the report schema --------------------------- *)

\* the columns update_perf_csv gives a new report
Columns ==
    <<"pipeline", "model", "tags", "args", "docker_file", "base_docker",
      "docker_sha", "docker_image", "machine_name", "host_os",
      "gpu_architecture", "n_gpus", "training_precision", "performance",
      "metric", "status", "build_duration", "test_duration", "git_commit",
      "relative_change">>

\* the attributes of a RunDetails, in the order __init__ sets them
RunDetailsKeys ==
    <<"model", "pipeline", "tags", "args", "docker_file", "base_docker",
      "docker_sha", "docker_image", "machine_name", "host_os",
      "gpu_architecture", "n_gpus", "training_precision", "performance",
      "metric", "status", "build_duration", "test_duration", "git_commit",
      "relative_change">>

(* --------------------- the aggregator's helpers ----------------------- *)

Raise(e, df) == [err |-> e, df |-> df, entry |-> NoFile]

\* json.load of the file an argument names; open(None) is a TypeError
read_json(arg) ==
    IF ~arg.given THEN [err |-> "TypeError: open(None)", d |-> <<>>]
    ELSE [err |-> "ok", d |-> arg.file]

\* the characters of a text, for the texts tags are given as
Characters(text) ==
    CASE text = "a,b" -> <<Str("a"), Str(","), Str("b")>>
      [] text = "x,y" -> <<Str("x"), Str(","), Str("y")>>
      [] text = "a" -> <<Str("a")>>
      [] OTHER -> <<>>

\* mutant of flatten_tags: the type of tags is not looked at, so that a text
\* is joined character by character
flatten_tags_any_type(perf_entry) ==
    IF ~HasKey(perf_entry, "tags")
    THEN [err |-> "KeyError: tags", d |-> perf_entry]
    ELSE LET tags == Get(perf_entry, "tags")
         IN  IF IsList(tags) \/ IsStr(tags)
             THEN [err |-> "ok",
                   d   |-> DictSet(perf_entry, "tags",
                              Str(Join(IF IsList(tags) THEN tags.list
                                       ELSE Characters(tags.str), ",")))]
             ELSE [err |-> "ok", d |-> perf_entry]

\* mutates perf_entry in place: d is perf_entry afterwards
flatten_tags(perf_entry) ==
    IF ~HasKey(perf_entry, "tags")
    THEN [err |-> "KeyError: tags", d |-> perf_entry]
    ELSE IF IsList(Get(perf_entry, "tags"))
    THEN [err |-> "ok",
          d   |-> DictSet(perf_entry, "tags",
                          Str(Join(Get(perf_entry, "tags").list, ",")))]
    ELSE [err |-> "ok", d |-> perf_entry]

\* mutant of perf_entry_df_to_csv: the file is opened for appending
perf_entry_df_to_csv_append(df) ==
    IF perf_entry_csv.exists
    THEN [perf_entry_csv EXCEPT !.rows = @ \o to_csv(df).rows]
    ELSE to_csv(df)

\* the content written to perf_entry.csv (opened for writing: overwritten)
perf_entry_df_to_csv(df) == to_csv(df)

perf_entry_dict_to_csv(perf_entry) ==
    LET written(f) ==
            IF f.err # "ok" THEN [err |-> f.err, d |-> f.d, entry |-> NoFile]
            ELSE [err |-> "ok", d |-> f.d,
                  entry |-> perf_entry_df_to_csv(DataFrameFromDict(f.d))]
    IN  written(flatten_tags(perf_entry))

handle_single_result(perf_csv_df, single_result) ==
    LET appended(w) ==
            IF w.err # "ok" THEN Raise(w.err, perf_csv_df)
            ELSE [err   |-> "ok",
                  df    |-> concat(perf_csv_df, DataFrameFromDict(w.d)),
                  entry |-> w.entry]
        loaded(js) ==
            IF js.err # "ok" THEN Raise(js.err, perf_csv_df)
            ELSE appended(perf_entry_dict_to_csv(js.d))
    IN  loaded(read_json(single_result))

handle_exception_result(perf_csv_df, exception_result) ==
    LET appended(w) ==
            IF w.err # "ok" THEN Raise(w.err, perf_csv_df)
            ELSE [err   |-> "ok",
                  df    |-> concat(perf_csv_df, DataFrameFromDict(w.d)),
                  entry |-> w.entry]
        loaded(js) ==
            IF js.err # "ok" THEN Raise(js.err, perf_csv_df)
            ELSE appended(perf_entry_dict_to_csv(js.d))
    IN  loaded(read_json(exception_result))

\* mutant of CheckHeader: the count of the columns is not checked
CheckHeaderNoCount(multiple_results_header) ==
    IF \E h \in {"model", "performance", "metric"} : h \notin Range(multiple_results_header)
    THEN "RuntimeError: missing column"
    ELSE "ok"

\* the check of the header of the multiple-results CSV
CheckHeader(multiple_results_header) ==
    LET headings == <<"model", "performance", "metric">>
    IN  IF Len(multiple_results_header) # 3
        THEN "RuntimeError: must have three columns"
        ELSE IF \E i \in 1..Len(headings) : headings[i] \notin Range(multiple_results_header)
        THEN "RuntimeError: missing column"
        ELSE "ok"

\* mutant of SetStatus: a status the row already has is kept
SetStatusIfAbsent(row, r) ==
    IF HasKey(row, "status") THEN row
    ELSE IF NotNa(r["performance"]) THEN DictSet(row, "status", Str("SUCCESS"))
    ELSE DictSet(row, "status", Str("FAILURE"))

\* mutant of SetStatus: a missing performance is not looked at
SetStatusSuccess(row, r) == DictSet(row, "status", Str("SUCCESS"))

\* row["status"] = "SUCCESS" if r["performance"] is not None and not NaN, else "FAILURE"
SetStatus(row, r) ==
    IF NotNa(r["performance"]) THEN DictSet(row, "status", Str("SUCCESS"))
    ELSE DictSet(row, "status", Str("FAILURE"))

\* the loop over multiple_results_df.to_dict(orient="records"): row is the one
\* dict common_info_json, updated for each record; final is
\* final_multiple_results_df
RECURSIVE AddResults(_, _, _, _)
AddResults(records, row, model_name, final) ==
    IF records = <<>> THEN [err |-> "ok", df |-> final]
    ELSE IF ~IsStr(model_name)
    THEN [err |-> "TypeError: model_name", df |-> final]
    ELSE
      LET r  == Head(records)
          r1 == DictSet(row, "model", Str(model_name.str \o "_" \o PyStr(r["model"])))
          r2 == DictSet(r1, "performance", r["performance"])
          r3 == DictSet(r2, "metric", r["metric"])
          added(r4) == AddResults(Tail(records), r4, model_name,
                                  concat(final, DataFrameFromDict(r4)))
      IN  added(SetStatus(r3, r))

handle_multiple_results(perf_csv_df, multiple_results, common_info, model_name) ==
    LET appended(final) ==
            IF final.err # "ok" THEN Raise(final.err, perf_csv_df)
            ELSE [err   |-> "ok",
                  df    |-> concat(perf_csv_df, final.df),
                  entry |-> perf_entry_df_to_csv(final.df)]
        reindexed(built) ==
            IF built.err # "ok" THEN Raise(built.err, perf_csv_df)
            ELSE appended(getitem(built.df, perf_csv_df.columns))
        looped(multiple_results_df, f) ==
            IF f.err # "ok" THEN Raise(f.err, perf_csv_df)
            ELSE reindexed(AddResults(to_dict(multiple_results_df), f.d, model_name,
                                      EmptyDataFrame))
        loaded(multiple_results_df, js) ==
            IF js.err # "ok" THEN Raise(js.err, perf_csv_df)
            ELSE looped(multiple_results_df, flatten_tags(js.d))
        checked(multiple_results_df) ==
            IF CheckHeader(multiple_results_df.columns) # "ok"
            THEN Raise(CheckHeader(multiple_results_df.columns), perf_csv_df)
            ELSE loaded(multiple_results_df, read_json(common_info))
    IN  checked(df_strip_columns(read_csv(multiple_results.file)))

\* mutant of Dispatch: single_result is looked at before multiple_results
DispatchSingleFirst(call) ==
    IF call.single_result.given THEN "single"
    ELSE IF call.multiple_results.given THEN "multiple"
    ELSE IF call.exception_result.given THEN "exception"
    ELSE "none"

\* mutant of Dispatch: failed_result is taken for an exception result
DispatchFailedResult(call) ==
    IF call.multiple_results.given THEN "multiple"
    ELSE IF call.single_result.given THEN "single"
    ELSE IF call.exception_result.given \/ call.failed_result.given THEN "exception"
    ELSE "none"

\* which handler update_perf_csv calls
Dispatch(call) ==
    IF call.multiple_results.given THEN "multiple"
    ELSE IF call.single_result.given THEN "single"
    ELSE IF call.exception_result.given THEN "exception"
    ELSE "none"

(* ------------------ the artifacts a call may be given ------------------ *)

\* the value an artifact gives the field k
FieldValue(k, model, tags, performance, status) ==
    CASE k = "model" -> Str(model)
      [] k = "tags" -> tags
      [] k = "performance" -> performance
      [] k = "status" -> Str(status)
      [] k = "metric" -> Str("images/sec")
      [] OTHER -> Str("v:" \o k)

\* a JSON object with the members keys, in that order
Json(keys, model, tags, performance, status) ==
    [i \in 1..Len(keys) |->
        <<keys[i], FieldValue(keys[i], model, tags, performance, status)>>]

\* the attributes generate_json(multiple_results=True) writes
CommonKeys ==
    SelectSeq(RunDetailsKeys,
              LAMBDA k : k \notin {"model", "performance", "metric", "status"})

TagsValues == {PyList(<<Str("x"), Str("y")>>), Str("x,y")}

\* <<performance, status>> as a result artifact may carry them
Verdicts ==
    {<<Str("123.4"), "SUCCESS">>, <<Str(""), "FAILURE">>, <<PyNone, "SUCCESS">>}

SingleKeys ==
    {RunDetailsKeys,
     <<"model", "performance", "metric", "status">>,
     <<"status", "tags", "performance", "model">>,
     <<"extra", "status", "tags", "performance", "metric", "model">>}

SingleFiles ==
    {Json(keys, "resnet", t, v[1], v[2]) :
        keys \in SingleKeys, t \in TagsValues, v \in Verdicts}

ExceptionFiles ==
    {Json(RunDetailsKeys, "broken", Str("x,y"), Str(""), "FAILURE"),
     Json(RunDetailsKeys, "broken", Str("x,y"), Str(""), "SUCCESS"),
     Json(<<"model", "status">>, "broken", Str(""), Str(""), "FAILURE")}

CommonFiles ==
    {Json(CommonKeys, "", PyList(<<Str("x"), Str("y")>>), Str(""), ""),
     Json(Append(CommonKeys, "status"), "", Str("x,y"), Str(""), "SUCCESS")}

PartialCommonFiles ==
    {Json(<<"pipeline", "tags">>, "", PyList(<<Str("x"), Str("y")>>), Str(""), ""),
     Json(SelectSeq(CommonKeys, LAMBDA k : k # "tags"), "", Str(""), Str(""), "")}

\* the data rows of a multiple-results CSV
ResultRow(model, performance) ==
    [model |-> model, performance |-> performance, metric |-> "tok/s"]

Batches ==
    {<<>>,
     <<ResultRow("A", "10.0")>>,
     <<ResultRow("B", "")>>,
     <<ResultRow("A", "10")>>,
     <<ResultRow("A", "10.0"), ResultRow("B", "")>>,
     <<ResultRow("B", ""), ResultRow("A", "10.0")>>,
     <<ResultRow("", "5.0"), ResultRow("A", "")>>}

ValidHeaders ==
    {<<"model", "performance", "metric">>,
     <<" metric ", " model", "performance ">>}

InvalidHeaders ==
    {<<"model", "performance">>,
     <<"model", "performance", "metric", "notes">>,
     <<"model", "perf", "metric">>}

\* the CSV file with this header line and these data rows
MkCsv(header, batch) ==
    [exists |-> TRUE,
     header |-> header,
     rows   |-> [i \in 1..Len(batch) |->
                   [j \in 1..Len(header) |->
                      IF strip(header[j]) \in DOMAIN batch[i]
                      THEN batch[i][strip(header[j])] ELSE "n/a"]]]

ResultArgs == {"single_result", "exception_result", "failed_result", "multiple_results"}

BaseSingle == Json(RunDetailsKeys, "resnet", PyList(<<Str("x"), Str("y")>>), Str("123.4"), "SUCCESS")

BaseException == Json(RunDetailsKeys, "broken", Str("x,y"), Str(""), "FAILURE")

BaseCsv ==
    MkCsv(<<"model", "performance", "metric">>,
          <<ResultRow("A", "10.0"), ResultRow("B", "")>>)

BaseCommon == Json(CommonKeys, "", PyList(<<Str("x"), Str("y")>>), Str(""), "")

\* an argument that names a file, with the file's content; an omitted one (None)
Given(content) == [given |-> TRUE, file |-> content]

NotGiven == [given |-> FALSE, file |-> <<>>]

\* a call of update_perf_csv: the arguments given (a path, not None and not
\* empty) and the content of the file each names
MkCall(given, single, exception, csv, common, commonGiven, model_name) ==
    [single_result    |-> IF "single_result" \in given THEN Given(single) ELSE NotGiven,
     exception_result |-> IF "exception_result" \in given THEN Given(exception) ELSE NotGiven,
     failed_result    |-> IF "failed_result" \in given THEN Given(<<>>) ELSE NotGiven,
     multiple_results |-> IF "multiple_results" \in given THEN Given(csv) ELSE NotGiven,
     common_info      |-> IF commonGiven THEN Given(common) ELSE NotGiven,
     model_name       |-> model_name]

\* every combination of the four result arguments, on fixed files
DispatchCalls ==
    {MkCall(g, BaseSingle, BaseException, BaseCsv, BaseCommon, TRUE, Str("suite1")) :
        g \in SUBSET ResultArgs}

SingleCalls ==
    {MkCall({"single_result"}, js, BaseException, BaseCsv, BaseCommon, FALSE, PyNone) :
        js \in SingleFiles}

ExceptionCalls ==
    {MkCall({"exception_result"}, BaseSingle, js, BaseCsv, BaseCommon, FALSE, PyNone) :
        js \in ExceptionFiles}

MultipleCalls ==
    {MkCall({"multiple_results"}, BaseSingle, BaseException, MkCsv(h, b), c, TRUE, Str("suite1")) :
        h \in ValidHeaders, b \in Batches, c \in CommonFiles}
    \cup
    {MkCall({"multiple_results"}, BaseSingle, BaseException, MkCsv(h, b), BaseCommon, TRUE, Str("suite1")) :
        h \in InvalidHeaders, b \in Batches}
    \cup
    {MkCall({"multiple_results"}, BaseSingle, BaseException, MkCsv(<<"model", "performance", "metric">>, b),
            c, TRUE, Str("suite1")) :
        b \in Batches, c \in PartialCommonFiles}
    \cup
    {MkCall({"multiple_results"}, BaseSingle, BaseException, MkCsv(<<"model", "performance", "metric">>, b),
            BaseCommon, g, n) :
        b \in Batches, g \in BOOLEAN, n \in {Str("suite1"), PyNone}}

Calls == DispatchCalls \cup SingleCalls \cup ExceptionCalls \cup MultipleCalls

NoCall == MkCall({}, BaseSingle, BaseException, BaseCsv, BaseCommon, FALSE, PyNone)

(* ------------------------- update_perf_csv ---------------------------- *)

\* the bound of the model: no call is made on a report of MaxRows rows or more
MaxRows == 2

\* lines 1239-1266: the report as the call reads it
read_report(file) ==
    IF ~file.exists THEN DataFrameColumns(Columns)
    ELSE df_strip_columns(read_csv(file))

\* lines 1269-1281: the handler the arguments select, run on the report read
run_handler(perf_csv_df, call) ==
    LET handler == Dispatch(call)
    IN  CASE handler = "multiple" ->
                handle_multiple_results(perf_csv_df, call.multiple_results,
                                        call.common_info, call.model_name)
          [] handler = "single" ->
                handle_single_result(perf_csv_df, call.single_result)
          [] handler = "exception" ->
                handle_exception_result(perf_csv_df, call.exception_result)
          [] OTHER ->
                Raise("RuntimeError: at least one must be provided", perf_csv_df)

\* mutant of update_perf_csv: the report is written whether or not the handler raised
update_perf_csv_always_writes(call) ==
    LET perf_csv_df == read_report(perf_csv)
        written(res) ==
            /\ perf_csv' = to_csv(res.df)
            /\ perf_entry_csv' = IF res.entry.exists THEN res.entry ELSE perf_entry_csv
            /\ last' = [call    |-> call,
                        handler |-> Dispatch(call),
                        err     |-> res.err,
                        perf_csv_before       |-> perf_csv,
                        perf_entry_csv_before |-> perf_entry_csv]
    IN  written(run_handler(perf_csv_df, call))

update_perf_csv(call) ==
    LET perf_csv_df == read_report(perf_csv)
        written(res) ==
            /\ perf_csv' = IF res.err = "ok" THEN to_csv(res.df) ELSE perf_csv
            /\ perf_entry_csv' = IF res.entry.exists THEN res.entry ELSE perf_entry_csv
            /\ last' = [call    |-> call,
                        handler |-> Dispatch(call),
                        err     |-> res.err,
                        perf_csv_before       |-> perf_csv,
                        perf_entry_csv_before |-> perf_entry_csv]
    IN  written(run_handler(perf_csv_df, call))

(* ------------------ two update_perf_csv calls at once ----------------- *)
(* Two processes call update_perf_csv on the same report path.  A call is  *)
(* three steps: it reads the report, it runs its handler (which writes     *)
(* perf_entry.csv), it writes the report.  Nothing locks the file, so the  *)
(* steps of the two calls interleave freely.                               *)

Callers == {1, 2}

\* the calls the two make: one of each kind, each of which succeeds alone
ConcurrentCalls ==
    {MkCall({a}, BaseSingle, BaseException, BaseCsv, BaseCommon, TRUE, Str("suite1")) :
        a \in {"single_result", "exception_result", "multiple_results"}}

NoCaller ==
    [pc |-> "idle", call |-> NoCall, perf_csv_df |-> EmptyDataFrame,
     res |-> Raise("no call yet", EmptyDataFrame), seen |-> 0]

\* lines 1239-1266
ReadReport(p, call) ==
    /\ callers[p].pc = "idle"
    /\ callers' = [callers EXCEPT ![p] =
                      [pc |-> "read", call |-> call, perf_csv_df |-> read_report(perf_csv),
                       res |-> Raise("no call yet", EmptyDataFrame), seen |-> Len(writes)]]
    /\ UNCHANGED <<perf_csv, perf_entry_csv, writes, otherThanFiles>>

\* lines 1269-1281
RunHandler(p) ==
    /\ callers[p].pc = "read"
    /\ LET handled(res) ==
               /\ callers' = [callers EXCEPT ![p].res = res,
                                 ![p].pc = IF res.err = "ok" THEN "handled" ELSE "raised"]
               /\ perf_entry_csv' = IF res.entry.exists THEN res.entry ELSE perf_entry_csv
       IN  handled(run_handler(callers[p].perf_csv_df, callers[p].call))
    /\ UNCHANGED <<perf_csv, writes, otherThanFiles>>

\* mutant of written_report: the new rows are added to the report as it is now
written_report_appended(p) ==
    LET new == SubSeq(callers[p].res.df.rows, Len(callers[p].perf_csv_df.rows) + 1,
                      Len(callers[p].res.df.rows))
    IN  to_csv(concat(read_report(perf_csv),
                      [columns |-> callers[p].res.df.columns, rows |-> new]))

\* line 1286: the whole report, as this call read it, with its new rows
written_report(p) == to_csv(callers[p].res.df)

WriteReport(p) ==
    /\ callers[p].pc = "handled"
    /\ perf_csv' = written_report(p)
    /\ writes' = Append(writes, p)
    /\ callers' = [callers EXCEPT ![p].pc = "done"]
    /\ UNCHANGED <<perf_entry_csv, otherThanFiles>>

ConcurrentInit ==
    /\ callers = [p \in Callers |-> NoCaller]
    /\ writes = <<>>

NextConcurrent ==
    \/ \E p \in Callers, call \in ConcurrentCalls : ReadReport(p, call)
    \/ \E p \in Callers : RunHandler(p)
    \/ \E p \in Callers : WriteReport(p)

(* ------------------------------ Console.sh ---------------------------- *)
(* A text is modelled as the sequence of the parts it is put together      *)
(* from, so that what a message contains can be told.  The child process   *)
(* is the environment: it may write a line, close its output or exit at    *)
(* any time, or never.  Time passes by Tick, one second at a time, but not *)
(* past the deadline of a running communicate() or wait().                 *)

\* the bounds of the model: the clock stops at MaxTime, a child writes at most MaxLines lines
MaxTime == 4

MaxLines == 1

Timeouts == {1, 2}

Commands == {"make test", "login --password hunter2"}

\* the values passed for `secret`: the two of its declared type bool, and a text
Secrets == {PyBool(FALSE), PyBool(TRUE), Str("<secret>")}

ExitCodes == {0, 1}

OutputLine == <<"built", "\n">>

NoDeadline == MaxTime + 1

NoProc == [state |-> "none", stdout_open |-> FALSE, pipe |-> <<>>,
           written |-> 0, returncode |-> PyNone]

NoResult == [kind |-> "none"]

Return(value) == [kind |-> "return", value |-> value]

RaiseError(type, message) == [kind |-> "raise", type |-> type, message |-> message]

NoFrame ==
    [pc |-> "idle", command |-> "", can_fail |-> FALSE, timeout |-> 1,
     secret |-> PyBool(FALSE), live_output |-> FALSE, shell_verbose |-> TRUE,
     outs |-> <<>>, deadline |-> NoDeadline, result |-> NoResult]

Blocked == frame.pc \in {"communicate", "readline", "wait"}

\* logger.info(text), logger.error(text)
logger(level, text) == log' = Append(log, <<level, text>>)

\* outs.strip(): the text without the white space at its two ends
RECURSIVE str_strip(_)
str_strip(text) ==
    IF text = <<>> THEN text
    ELSE IF Head(text) \in {"\n", " "} THEN str_strip(Tail(text))
    ELSE IF text[Len(text)] \in {"\n", " "} THEN str_strip(SubSeq(text, 1, Len(text) - 1))
    ELSE text

\* "Subprocess '" + who + "' failed with exit code " + str(returncode)
FailedMessage(who, returncode) ==
    <<"Subprocess '", who, "' failed with exit code ", ToString(returncode)>>

\* lines 177-202: the return code is checked and the output returned
CheckReturncode(outs) ==
    LET rc == proc.returncode
    IN  IF rc # 0 /\ ~frame.can_fail
        THEN IF ~Truthy(frame.secret)
             THEN [logged |-> <<<<"error", FailedMessage(frame.command, rc)>>>>,
                   result |-> RaiseError("RuntimeError", FailedMessage(frame.command, rc))]
             ELSE [logged |-> <<<<"error", FailedMessage(PyStr(frame.secret), rc)>>>>,
                   result |-> IF IsStr(frame.secret)
                              THEN RaiseError("RuntimeError",
                                              FailedMessage(frame.secret.str, rc))
                              ELSE RaiseError("TypeError",
                                      <<"can only concatenate str (not \"bool\") to str">>)]
        ELSE [logged |-> <<>>, result |-> Return(str_strip(outs))]

\* lines 129-144: the command is logged and the child process started
sh(command, can_fail, timeout, secret, live_output, shell_verbose) ==
    /\ ~Blocked
    /\ log' = IF shell_verbose /\ ~Truthy(secret)
              THEN << <<"info", <<"> ", command>>>> >>
              ELSE <<>>
    /\ proc' = [state |-> "running", stdout_open |-> TRUE, pipe |-> <<>>,
                written |-> 0, returncode |-> PyNone]
    /\ clock' = 0
    /\ frame' = [pc |-> IF live_output THEN "readline" ELSE "communicate",
                 command |-> command, can_fail |-> can_fail, timeout |-> timeout,
                 secret |-> secret, live_output |-> live_output,
                 shell_verbose |-> shell_verbose, outs |-> <<>>,
                 deadline |-> IF live_output THEN NoDeadline ELSE timeout,
                 result |-> NoResult]
    /\ UNCHANGED otherThanConsole

Tick ==
    /\ Blocked
    /\ clock < MaxTime
    /\ clock < frame.deadline
    /\ clock' = clock + 1
    /\ UNCHANGED <<frame, proc, log, otherThanConsole>>

ChildWrites ==
    /\ proc.state = "running" /\ proc.stdout_open
    /\ proc.written < MaxLines
    /\ proc' = [proc EXCEPT !.pipe = @ \o OutputLine, !.written = @ + 1]
    /\ UNCHANGED <<frame, clock, log, otherThanConsole>>

ChildClosesStdout ==
    /\ proc.state = "running" /\ proc.stdout_open
    /\ proc' = [proc EXCEPT !.stdout_open = FALSE]
    /\ UNCHANGED <<frame, clock, log, otherThanConsole>>

ChildExits ==
    /\ proc.state = "running"
    /\ \E code \in ExitCodes :
         proc' = [proc EXCEPT !.state = "exited", !.stdout_open = FALSE,
                              !.returncode = code]
    /\ UNCHANGED <<frame, clock, log, otherThanConsole>>

\* lines 150-153 and 177-202: communicate() returns once the child has exited
Communicate ==
    /\ frame.pc = "communicate"
    /\ proc.state = "exited"
    /\ LET outs == proc.pipe
           end == CheckReturncode(outs)
       IN  /\ log' = log \o << <<"info", <<"">> \o outs>> >> \o end.logged
           /\ frame' = [frame EXCEPT !.outs = outs, !.result = end.result,
                           !.pc = IF end.result.kind = "return" THEN "returned"
                                  ELSE "raised"]
           /\ proc' = [proc EXCEPT !.pipe = <<>>]
    /\ UNCHANGED <<clock, otherThanConsole>>

\* lines 167-171: communicate() or wait() ran out of time
TimeoutExpired ==
    /\ frame.pc \in {"communicate", "wait"}
    /\ clock >= frame.deadline
    /\ proc.state = "running"
    /\ logger("error", <<"Console script timeout">>)
    /\ proc' = [proc EXCEPT !.state = "killed", !.stdout_open = FALSE]
    /\ frame' = [frame EXCEPT !.pc = "raised",
                    !.result = RaiseError("RuntimeError", <<"Console script timeout">>)]
    /\ UNCHANGED <<clock, otherThanConsole>>

\* lines 158-161: one line is read, logged and kept
ReadLine ==
    /\ frame.pc = "readline"
    /\ proc.pipe # <<>>
    /\ logger("info", <<"">> \o OutputLine)
    /\ frame' = [frame EXCEPT !.outs = @ \o OutputLine]
    /\ proc' = [proc EXCEPT !.pipe = SubSeq(@, Len(OutputLine) + 1, Len(@))]
    /\ UNCHANGED <<clock, otherThanConsole>>

\* lines 158, 164-166: readline() returns "" at the end of the output; wait() starts
ReadEOF ==
    /\ frame.pc = "readline"
    /\ proc.pipe = <<>> /\ ~proc.stdout_open
    /\ frame' = [frame EXCEPT !.pc = "wait",
                    !.deadline = IF clock + frame.timeout > MaxTime THEN NoDeadline
                                 ELSE clock + frame.timeout]
    /\ UNCHANGED <<proc, clock, log, otherThanConsole>>

\* lines 166 and 177-202: wait() returns once the child has exited
Wait ==
    /\ frame.pc = "wait"
    /\ proc.state = "exited"
    /\ LET end == CheckReturncode(frame.outs)
       IN  /\ log' = log \o end.logged
           /\ frame' = [frame EXCEPT !.result = end.result,
                           !.pc = IF end.result.kind = "return" THEN "returned"
                                  ELSE "raised"]
    /\ UNCHANGED <<proc, clock, otherThanConsole>>

ConsoleInit ==
    /\ frame = NoFrame
    /\ proc = NoProc
    /\ clock = 0
    /\ log = <<>>

NextConsole ==
    \/ \E command \in Commands, can_fail \in BOOLEAN, timeout \in Timeouts,
          secret \in Secrets, live_output \in BOOLEAN, shell_verbose \in BOOLEAN :
            sh(command, can_fail, timeout, secret, live_output, shell_verbose)
    \/ Tick
    \/ ChildWrites
    \/ ChildClosesStdout
    \/ ChildExits
    \/ Communicate
    \/ TimeoutExpired
    \/ ReadLine
    \/ ReadEOF
    \/ Wait

(* -------------------------------- Docker ------------------------------ *)
(* Every docker command goes through console.sh with can_fail false: it    *)
(* returns the command's output, or raises when the command exits with a   *)
(* nonzero code or runs out of time.  Which of the two happens is the      *)
(* environment's choice.  A container is a record of its name, its         *)
(* identifier and whether it is running.                                   *)

\* the bound of the model: a session runs at most MaxExecs commands in its container
MaxExecs == 1

ContainerNames == {"mad", "mad_old"}

\* `grep pattern`, and the name filter of `docker ps`: the pattern is part of the name
Contains(name, pattern) ==
    \/ name = pattern
    \/ name = "mad_old" /\ pattern = "mad"

ShaOf(name) == "sha_" \o name

Container(name, running) == [name |-> name, sha |-> ShaOf(name), running |-> running]

\* what the daemon may hold when a session is constructed
Daemons ==
    {{}} \cup {{Container(n, r)} : n \in ContainerNames, r \in BOOLEAN}
         \cup {{Container("mad", TRUE), Container("mad_old", FALSE)}}

NoSession ==
    [pc |-> "none", container_name |-> "", keep_alive |-> FALSE, docker_sha |-> PyNone,
     error |-> "", execs |-> 0, before |-> {}]

Issue(command, arg) == issued' = Append(issued, <<command, arg>>)

\* "docker container ps -a | grep " + container_name + " | wc -l"
container_name_exists_running_only(container_name) ==
    ToString(Cardinality({c \in containers : c.running /\ Contains(c.name, container_name)}))

container_name_exists(container_name) ==
    ToString(Cardinality({c \in containers : Contains(c.name, container_name)}))

\* "docker ps -aqf 'name=" + container_name + "' ": the identifiers, one per line
Lines(items) ==
    LET listed(name) == \E c \in items : c.name = name
    IN  [i \in 1..Cardinality(items) |->
            ShaOf(SelectSeq(<<"mad", "mad_old">>, listed)[i])]

docker_ps_aqf(container_name) ==
    LET lines == Lines({c \in containers : Contains(c.name, container_name)})
    IN  Join([i \in 1..Len(lines) |-> Str(lines[i])], "\n")

\* lines 250-253: the fields are set before the first command
Docker(container_name, keep_alive, daemon) ==
    /\ session.pc = "none"
    /\ containers' = daemon
    /\ issued' = <<>>
    /\ session' = [pc |-> "id -u", container_name |-> container_name,
                   keep_alive |-> keep_alive, docker_sha |-> PyNone,
                   error |-> "", execs |-> 0, before |-> daemon]
    /\ UNCHANGED otherThanDocker

Failed(error) == session' = [session EXCEPT !.pc = "failed", !.error = error]

\* line 254
IdU ==
    /\ session.pc = "id -u"
    /\ \E ok \in BOOLEAN :
         IF ok THEN session' = [session EXCEPT !.pc = "id -g"]
         ELSE Failed("RuntimeError: id -u")
    /\ UNCHANGED <<containers, issued, otherThanDocker>>

\* line 255
IdG ==
    /\ session.pc = "id -g"
    /\ \E ok \in BOOLEAN :
         IF ok THEN session' = [session EXCEPT !.pc = "docker container ps"]
         ELSE Failed("RuntimeError: id -g")
    /\ UNCHANGED <<containers, issued, otherThanDocker>>

\* lines 257-273
CheckContainerName ==
    /\ session.pc = "docker container ps"
    /\ Issue("docker container ps -a | grep", session.container_name)
    /\ \E ok \in BOOLEAN :
         IF ~ok THEN Failed("RuntimeError: docker container ps")
         ELSE IF container_name_exists(session.container_name) # "0"
              THEN Failed("RuntimeError: Container with name already exists")
              ELSE session' = [session EXCEPT !.pc = "docker run"]
    /\ UNCHANGED <<containers, otherThanDocker>>

\* lines 275-308: docker run -t -d ... --name container_name image cat
DockerRun ==
    /\ session.pc = "docker run"
    /\ Issue("docker run --name", session.container_name)
    /\ LET taken == \E c \in containers : c.name = session.container_name
           mine(running) == Container(session.container_name, running)
       IN  \/ /\ ~taken
              /\ containers' = containers \cup {mine(TRUE)}
              /\ session' = [session EXCEPT !.pc = "docker ps"]
           \/ /\ ~taken    \* created but not started: the command fails, the container stays
              /\ containers' = containers \cup {mine(FALSE)}
              /\ Failed("RuntimeError: docker run")
           \/ /\ containers' = containers
              /\ Failed("RuntimeError: docker run")
    /\ UNCHANGED otherThanDocker

\* lines 310-313
DockerSha ==
    /\ session.pc = "docker ps"
    /\ Issue("docker ps -aqf name=", session.container_name)
    /\ \E ok \in BOOLEAN :
         IF ok THEN session' = [session EXCEPT !.pc = "ready",
                                   !.docker_sha = Str(docker_ps_aqf(session.container_name))]
         ELSE Failed("RuntimeError: docker ps")
    /\ UNCHANGED <<containers, otherThanDocker>>

\* lines 315-336: Docker.sh
DockerSh ==
    /\ session.pc = "ready"
    /\ session.execs < MaxExecs
    /\ Issue("docker exec", session.docker_sha.str)
    /\ session' = [session EXCEPT !.execs = @ + 1]
    /\ UNCHANGED <<containers, otherThanDocker>>

\* lines 338-363: __del__ starts when the session object is let go, also
\* when its constructor raised
Release ==
    /\ session.pc \in {"ready", "failed"}
    /\ session' = [session EXCEPT !.pc =
                      IF ~session.keep_alive /\ Truthy(session.docker_sha)
                      THEN "docker stop" ELSE "released"]
    /\ UNCHANGED <<containers, issued, otherThanDocker>>

\* line 350: an exception raised in __del__ ends it there
DockerStop ==
    /\ session.pc = "docker stop"
    /\ Issue("docker stop --time=1", session.docker_sha.str)
    /\ \E ok \in BOOLEAN :
         IF ok
         THEN /\ containers' = {IF c.sha = session.docker_sha.str
                                THEN [c EXCEPT !.running = FALSE] ELSE c : c \in containers}
              /\ session' = [session EXCEPT !.pc = "docker rm"]
         ELSE /\ containers' = containers
              /\ session' = [session EXCEPT !.pc = "released",
                                !.error = "RuntimeError: docker stop"]
    /\ UNCHANGED otherThanDocker

\* line 351
DockerRm ==
    /\ session.pc = "docker rm"
    /\ Issue("docker rm -f", session.docker_sha.str)
    /\ \E ok \in BOOLEAN :
         IF ok
         THEN /\ containers' = {c \in containers : c.sha # session.docker_sha.str}
              /\ session' = [session EXCEPT !.pc = "released"]
         ELSE /\ containers' = containers
              /\ session' = [session EXCEPT !.pc = "released",
                                !.error = "RuntimeError: docker rm"]
    /\ UNCHANGED otherThanDocker

DockerInit ==
    /\ session = NoSession
    /\ containers = {}
    /\ issued = <<>>

NextDocker ==
    \/ \E container_name \in ContainerNames, keep_alive \in BOOLEAN, daemon \in Daemons :
         Docker(container_name, keep_alive, daemon)
    \/ IdU
    \/ IdG
    \/ CheckContainerName
    \/ DockerRun
    \/ DockerSha
    \/ DockerSh
    \/ Release
    \/ DockerStop
    \/ DockerRm

(* ------------------------------ RunDetails ---------------------------- *)

\* the bound of the model: generate_report is not called on a report of MaxReportRows rows
MaxReportRows == 2

\* the attributes the model assigns, and the values it assigns to them
Assigned == {"status", "performance", "notes"}

AssignedValues(key) ==
    CASE key = "status" -> {Str("SUCCESS")}
      [] key = "performance" -> {PyNone}
      [] OTHER -> {Str("v:" \o key)}

\* lines 444-463
NewRunDetails ==
    [i \in 1..Len(RunDetailsKeys) |->
        <<RunDetailsKeys[i], Str(IF RunDetailsKeys[i] = "status" THEN "FAILURE" ELSE "")>>]

\* lines 496-500 and 518-522: an empty dict when the flag is false
keys_to_exclude_without_status(multiple_results) ==
    IF multiple_results THEN {"model", "performance", "metric"} ELSE {}

keys_to_exclude(multiple_results) ==
    IF multiple_results THEN {"model", "performance", "metric", "status"} ELSE {}

\* {x: attributes[x] for x in attributes if x not in keys_to_exclude}
output_dict(attributes, excluded) ==
    LET kept(item) == item[1] \notin excluded IN SelectSeq(attributes, kept)

\* a value as csv.DictWriter writes it: None as the empty text, the others by str()
CsvField(v) == IF v = PyNone THEN "" ELSE PyStr(v)

NoJsonFile == [exists |-> FALSE, content |-> <<>>]

\* self.<key> = value
SetAttribute(key, value) ==
    /\ run_details' = DictSet(run_details, key, value)
    /\ UNCHANGED <<json_file, report_file, wrote, otherThanDetails>>

\* lines 486-504
generate_json(multiple_results) ==
    /\ json_file' = [exists |-> TRUE,
                     content |-> output_dict(run_details, keys_to_exclude(multiple_results))]
    /\ wrote' = [method |-> "generate_json", multiple_results |-> multiple_results,
                 attributes |-> run_details, report_before |-> report_file]
    /\ UNCHANGED <<run_details, report_file, otherThanDetails>>

\* lines 506-537
generate_report(are_multiple_results) ==
    LET out == output_dict(run_details, keys_to_exclude(are_multiple_results))
        row == [i \in 1..Len(out) |-> CsvField(out[i][2])]
    IN  /\ Len(report_file.rows) < MaxReportRows
        /\ report_file' =
             IF report_file.exists /\ (report_file.header # <<>> \/ report_file.rows # <<>>)
             THEN [report_file EXCEPT !.rows = Append(@, row)]
             ELSE [exists |-> TRUE, header |-> Keys(out), rows |-> <<row>>]
        /\ wrote' = [method |-> "generate_report", multiple_results |-> are_multiple_results,
                     attributes |-> run_details, report_before |-> report_file]
        /\ UNCHANGED <<run_details, json_file, otherThanDetails>>

DetailsInit ==
    /\ run_details = NewRunDetails
    /\ json_file = NoJsonFile
    /\ report_file = NoFile
    /\ wrote = [method |-> "none", multiple_results |-> FALSE,
                attributes |-> <<>>, report_before |-> NoFile]

NextDetails ==
    \/ \E key \in Assigned : \E value \in AssignedValues(key) : SetAttribute(key, value)
    \/ \E multiple_results \in BOOLEAN : generate_json(multiple_results)
    \/ \E are_multiple_results \in BOOLEAN : generate_report(are_multiple_results)

(* ----------------------------- flatten_tags --------------------------- *)
(* flatten_tags on its own: it is given a dict and applied to it again and *)
(* again.                                                                  *)

\* the bound of the model: flatten_tags is applied to a dict at most MaxApplications times
MaxApplications == 2

\* the items of a tags list
TagItems == {Str("a"), Str("b"), PyInt(1)}

TagLists == {<<>>} \cup {<<x>> : x \in TagItems} \cup {<<x, y>> : x, y \in TagItems}

\* what tags may be: a list, a text, None
Tags == {PyList(xs) : xs \in TagLists} \cup {Str("a,b"), Str("a"), Str(""), PyNone}

\* the dicts flatten_tags is given: tags first, last, alone, or missing
Entries ==
    {<< <<"tags", t>>, <<"model", Str("resnet")>> >> : t \in Tags}
    \cup {<< <<"model", Str("resnet")>>, <<"status", Str("SUCCESS")>>, <<"tags", t>> >> : t \in Tags}
    \cup {<< <<"tags", t>> >> : t \in Tags}
    \cup {<< <<"model", Str("resnet")>> >>}

Flatten ==
    /\ raised = ""
    /\ Len(trail) <= MaxApplications
    /\ LET f == flatten_tags(entry)
       IN  /\ entry' = f.d
           /\ raised' = IF f.err = "ok" THEN "" ELSE f.err
           /\ trail' = IF f.err = "ok" THEN Append(trail, f.d) ELSE trail
    /\ UNCHANGED otherThanFlatten

FlattenIdle ==
    /\ entry = <<>>
    /\ trail = <<>>
    /\ raised = "no dict"

FlattenInit ==
    /\ entry \in Entries
    /\ trail = <<entry>>
    /\ raised = ""

NextFlatten == Flatten

PerfInit ==
    /\ perf_csv = NoFile
    /\ perf_entry_csv = NoFile
    /\ last = [call    |-> NoCall,
               handler |-> "none",
               err     |-> "no call yet",
               perf_csv_before       |-> NoFile,
               perf_entry_csv_before |-> NoFile]

Init ==
    /\ PerfInit
    /\ ConsoleInit
    /\ DockerInit
    /\ DetailsInit
    /\ ConcurrentInit
    /\ FlattenIdle

\* flatten_tags is given any of the dicts
InitFlatten ==
    /\ PerfInit
    /\ ConsoleInit
    /\ DockerInit
    /\ DetailsInit
    /\ ConcurrentInit
    /\ FlattenInit

\* an exception update_perf_csv raises is not caught: it ends the run
Next ==
    /\ last.err \in {"ok", "no call yet"}
    /\ Len(perf_csv.rows) < MaxRows
    /\ \E call \in Calls : update_perf_csv(call)
    /\ UNCHANGED otherThanPerf

Spec == Init /\ [][Next]_vars

SpecConsole == Init /\ [][NextConsole]_vars

SpecDocker == Init /\ [][NextDocker]_vars

\* The constructor is straight-line code and every console.sh in it returns or
\* raises within its timeout, so each of its steps is taken once it is
\* reached; an object nothing refers to any more (the constructor raised, or
\* the caller is done with the session) has its __del__ run, whose two
\* commands likewise end.  Nothing obliges the caller to run a command in the
\* container.
DockerFairness ==
    /\ WF_vars(IdU)
    /\ WF_vars(IdG)
    /\ WF_vars(CheckContainerName)
    /\ WF_vars(DockerRun)
    /\ WF_vars(DockerSha)
    /\ WF_vars(Release)
    /\ WF_vars(DockerStop)
    /\ WF_vars(DockerRm)

SpecDockerFair == Init /\ [][NextDocker]_vars /\ DockerFairness

SpecDetails == Init /\ [][NextDetails]_vars

SpecConcurrent == Init /\ [][NextConcurrent]_vars

SpecFlatten == InitFlatten /\ [][NextFlatten]_vars

(* ======================= the claims, C1 .. C10 ========================= *)

Called == last.err # "no call yet"

Succeeded == last.err = "ok"

Raised == Called /\ ~Succeeded

Unchanged ==
    /\ perf_csv = last.perf_csv_before
    /\ perf_entry_csv = last.perf_entry_csv_before

\* the text under the column col in a row of a file ("" when there is no such column)
Cell(file, row, col) ==
    IF col \in Range(file.header) THEN row[Pos(file.header, col)] ELSE ""

\* the rows the last call added to the report
NewRows ==
    SubSeq(perf_csv.rows, Len(last.perf_csv_before.rows) + 1, Len(perf_csv.rows))

\* the model names the rows of each kind of artifact carry
ModelsOf(handler) ==
    CASE handler = "multiple" -> {"suite1_A", "suite1_B", "suite1_nan"}
      [] handler = "single" -> {"resnet"}
      [] handler = "exception" -> {"broken"}
      [] OTHER -> {}

\* C1: update_perf_csv dispatches in strict priority order: multiple_results,
\* else single_result, else exception_result (the rows added come from that
\* artifact alone); with none of the three given the call raises and writes
\* neither the report nor perf_entry.csv.
C1_DispatchPriority ==
    Called =>
      LET c == last.call
          expected ==
              IF c.multiple_results.given THEN "multiple"
              ELSE IF c.single_result.given THEN "single"
              ELSE IF c.exception_result.given THEN "exception"
              ELSE "none"
      IN  /\ last.handler = expected
          /\ Succeeded =>
               /\ NewRows # <<>>
               /\ \A i \in 1..Len(NewRows) :
                     Cell(perf_csv, NewRows[i], "model") \in ModelsOf(expected)
          /\ expected = "none" =>
               /\ last.err = "RuntimeError: at least one must be provided"
               /\ Unchanged

C1_Witness ==
    /\ Succeeded
    /\ last.call.multiple_results.given
    /\ last.call.single_result.given
    /\ last.call.exception_result.given
    /\ last.handler = "multiple"
    /\ last.perf_csv_before.exists

\* the header names a multiple-results CSV must have, after trimming
ValidHeader(header) ==
    /\ Len(header) = 3
    /\ {strip(header[j]) : j \in 1..Len(header)} = {"model", "performance", "metric"}

\* C2: a multiple-results call whose CSV header, trimmed, is not exactly
\* {model, performance, metric} raises the descriptive error before any
\* mutation: the report and perf_entry.csv are as they were before the call.
C2_InvalidHeaderRaisesBeforeMutation ==
    (Called /\ last.call.multiple_results.given
       /\ ~ValidHeader(last.call.multiple_results.file.header)) =>
      /\ last.err \in {"RuntimeError: must have three columns",
                       "RuntimeError: missing column"}
      /\ Unchanged

C2_Witness ==
    /\ Raised
    /\ last.call.multiple_results.given
    /\ Len(last.call.multiple_results.file.header) = 4
    /\ Len(last.call.multiple_results.file.rows) > 0
    /\ last.perf_csv_before.exists
    /\ Len(last.perf_csv_before.rows) > 0
    /\ perf_csv = last.perf_csv_before

\* the text a value of an artifact is written as
ExpectedText(v) ==
    IF IsStr(v) THEN v.str ELSE IF IsList(v) THEN Join(v.list, ",") ELSE ""

\* the text of the column name in the i-th data row of the multiple-results CSV
InputCell(i, name) ==
    LET csv == last.call.multiple_results.file
    IN  csv.rows[i][CHOOSE j \in 1..Len(csv.header) : strip(csv.header[j]) = name]

MultipleCall ==
    /\ Called
    /\ last.handler = "multiple"
    /\ ValidHeader(last.call.multiple_results.file.header)

\* C3: every multiple-results call with a valid header (zero data rows
\* included) succeeds and appends one row per data row, in file order, the
\* i-th with model = model_name + "_" + the i-th input model.  Stated for
\* calls that give a complete common_info and a model_name, with non-empty
\* input models.
C3_ValidMultipleCallAppendsItsRows ==
    (MultipleCall
       /\ last.call.common_info.given
       /\ last.call.common_info.file \in CommonFiles
       /\ last.call.model_name = Str("suite1")
       /\ \A i \in 1..Len(last.call.multiple_results.file.rows) : InputCell(i, "model") # "") =>
      /\ Succeeded
      /\ Len(NewRows) = Len(last.call.multiple_results.file.rows)
      /\ \A i \in 1..Len(NewRows) :
            Cell(perf_csv, NewRows[i], "model") = "suite1" \o "_" \o InputCell(i, "model")

\* C4: in the multiple-results path the i-th appended row has status SUCCESS
\* if and only if the i-th input row's performance is present (not NaN), and
\* FAILURE otherwise, whatever status common_info carries.
C4_MultipleStatusIffPerformance ==
    (MultipleCall /\ Succeeded) =>
      /\ Len(NewRows) = Len(last.call.multiple_results.file.rows)
      /\ \A i \in 1..Len(NewRows) :
            Cell(perf_csv, NewRows[i], "status") =
                IF InputCell(i, "performance") # "" THEN "SUCCESS" ELSE "FAILURE"

C4_Witness ==
    /\ MultipleCall
    /\ Succeeded
    /\ last.perf_csv_before.exists
    /\ HasKey(last.call.common_info.file, "status")
    /\ Get(last.call.common_info.file, "status") = Str("SUCCESS")
    /\ Len(NewRows) = 2
    /\ InputCell(1, "performance") # ""
    /\ InputCell(2, "performance") = ""
    /\ Cell(perf_csv, NewRows[2], "status") = "FAILURE"

\* the row a JSON artifact js gives under the header: each value under the
\* column of its key, the other columns empty
AlignedRow(js, header) ==
    [j \in 1..Len(header) |->
        IF HasKey(js, header[j]) THEN ExpectedText(Get(js, header[j])) ELSE ""]

\* C5: with no report file, a single-result JSON that holds a subset of the
\* RunSummary fields (for example no tags) succeeds and gives the 20-column
\* header and one row with the values supplied, the other columns empty.
C5_SubsetSingleResultOnNewReport ==
    (Called /\ last.handler = "single" /\ ~last.perf_csv_before.exists
       /\ Range(Keys(last.call.single_result.file)) \subseteq Range(Columns)) =>
      /\ Succeeded
      /\ perf_csv.header = Columns
      /\ perf_csv.rows = << AlignedRow(last.call.single_result.file, Columns) >>

\* C6: a multiple-results call whose common_info supplies only some of the
\* report's columns (with tags among them) succeeds, appends one row per
\* input row and leaves the columns common_info lacks empty.
C6_PartialCommonInfoSucceeds ==
    (MultipleCall
       /\ last.call.common_info.given
       /\ HasKey(last.call.common_info.file, "tags")
       /\ Range(Keys(last.call.common_info.file)) \subseteq Range(Columns)
       /\ last.call.model_name = Str("suite1")
       /\ Len(last.call.multiple_results.file.rows) > 0
       /\ ~last.perf_csv_before.exists) =>
      /\ Succeeded
      /\ Len(NewRows) = Len(last.call.multiple_results.file.rows)
      /\ \A i \in 1..Len(NewRows) :
            /\ Cell(perf_csv, NewRows[i], "tags") = "x,y"
            /\ \A c \in Range(Columns) \ (Range(Keys(last.call.common_info.file))
                                          \cup {"model", "performance", "metric", "status"}) :
                  Cell(perf_csv, NewRows[i], c) = ""

C8_FixedSchema ==
    perf_csv.exists =>
      /\ perf_csv.header = Columns
      /\ \A i \in 1..Len(perf_csv.rows) : Len(perf_csv.rows[i]) = 20

\* C8 as amended: the header starts with the 20 canonical columns in order and
\* the columns a report has never move; the multiple-results path adds no
\* column; the single and exception paths append the keys of the artifact that
\* are not yet columns (column union); every row has one field per column.
C8_SchemaGrowsOnlyByNewKeys ==
    /\ perf_csv.exists =>
         /\ SubSeq(perf_csv.header, 1, 20) = Columns
         /\ \A i \in 1..Len(perf_csv.rows) : Len(perf_csv.rows[i]) = Len(perf_csv.header)
    /\ Succeeded =>
         LET before == IF last.perf_csv_before.exists
                       THEN last.perf_csv_before.header ELSE Columns
             keys == CASE last.handler = "single" -> Keys(last.call.single_result.file)
                       [] last.handler = "exception" -> Keys(last.call.exception_result.file)
                       [] OTHER -> <<>>
         IN  perf_csv.header = before \o SelectSeq(keys, LAMBDA k : k \notin Range(before))

C8_Witness ==
    /\ Succeeded
    /\ last.handler = "single"
    /\ last.perf_csv_before.exists
    /\ last.perf_csv_before.header = Columns
    /\ perf_csv.header = Append(Columns, "extra")
    /\ Len(perf_csv.rows) = 2
    /\ Len(perf_csv.rows[1]) = 21

\* two cells that hold the same value: the same text, or the same number
SameValue(text1, text2) == AsFloat64(ParseCell(text1)) = AsFloat64(ParseCell(text2))

\* C9: after every successful call perf_entry.csv holds exactly the rows the
\* call added to the report, in order, and nothing of earlier calls: as many
\* rows as were added, the same value under every column (a number may be
\* written 10 in the one and 10.0 in the other), and no column of the report
\* left out unless it is empty in those rows.
C9_SideFileHoldsTheNewRows ==
    Succeeded =>
      /\ perf_entry_csv.exists
      /\ Range(perf_entry_csv.header) \subseteq Range(perf_csv.header)
      /\ Len(perf_entry_csv.rows) = Len(NewRows)
      /\ Len(NewRows) = IF last.handler = "multiple"
                        THEN Len(last.call.multiple_results.file.rows) ELSE 1
      /\ \A i \in 1..Len(NewRows) : \A c \in Range(perf_csv.header) :
            SameValue(Cell(perf_entry_csv, perf_entry_csv.rows[i], c),
                      Cell(perf_csv, NewRows[i], c))

C9_Witness ==
    /\ Succeeded
    /\ last.handler = "multiple"
    /\ last.perf_entry_csv_before.exists
    /\ Len(last.perf_entry_csv_before.rows) = 1
    /\ Cell(last.perf_entry_csv_before, last.perf_entry_csv_before.rows[1], "model") = "broken"
    /\ Len(perf_entry_csv.rows) = 2
    /\ Cell(perf_entry_csv, perf_entry_csv.rows[1], "model") = "suite1_B"
    /\ Cell(perf_entry_csv, perf_entry_csv.rows[2], "model") = "suite1_A"

\* C10 as claimed: in every row of the report, status is SUCCESS if and only
\* if a performance value is recorded, and FAILURE otherwise.
C10_StatusIffPerformance ==
    \A i \in 1..Len(perf_csv.rows) :
        Cell(perf_csv, perf_csv.rows[i], "status") =
            IF Cell(perf_csv, perf_csv.rows[i], "performance") # ""
            THEN "SUCCESS" ELSE "FAILURE"

\* C10 as amended: every row of the report that the multiple-results path
\* wrote has status SUCCESS if and only if a performance value is recorded,
\* and FAILURE otherwise; a row of the single or exception path carries the
\* status and the performance of its artifact, whatever they are.
C10_StatusAsTheArtifactGivesIt ==
    /\ \A i \in 1..Len(perf_csv.rows) :
          Cell(perf_csv, perf_csv.rows[i], "model") \in ModelsOf("multiple") =>
             Cell(perf_csv, perf_csv.rows[i], "status") =
                 IF Cell(perf_csv, perf_csv.rows[i], "performance") # ""
                 THEN "SUCCESS" ELSE "FAILURE"
    /\ (Succeeded /\ last.handler \in {"single", "exception"}) =>
          LET js == IF last.handler = "single" THEN last.call.single_result.file
                    ELSE last.call.exception_result.file
          IN  /\ Len(NewRows) = 1
              /\ \A k \in {"status", "performance"} :
                    Cell(perf_csv, NewRows[1], k) =
                        IF HasKey(js, k) THEN ExpectedText(Get(js, k)) ELSE ""

C10_Witness ==
    /\ Succeeded
    /\ last.handler = "multiple"
    /\ Len(perf_csv.rows) = 3
    /\ Cell(perf_csv, perf_csv.rows[1], "model") = "broken"
    /\ Cell(perf_csv, perf_csv.rows[1], "status") = "SUCCESS"
    /\ Cell(perf_csv, perf_csv.rows[1], "performance") = ""
    /\ Cell(perf_csv, perf_csv.rows[2], "model") = "suite1_A"
    /\ Cell(perf_csv, perf_csv.rows[2], "status") = "SUCCESS"
    /\ Cell(perf_csv, perf_csv.rows[3], "status") = "FAILURE"

(* ======================= the claims, C11 .. C20 ======================== *)

Ended == frame.pc \in {"returned", "raised"}

TimeoutError == RaiseError("RuntimeError", <<"Console script timeout">>)

\* C11: in buffered and in live-output mode alike, a Console.sh call whose
\* child process is still running when `timeout` seconds have elapsed kills
\* it and raises the timeout error; the call never blocks beyond the timeout
\* (the clock of a call never passes its timeout, and a call that has ended
\* has left no child running), and it starts the command once.
C11_TimeoutEnforced ==
    /\ frame.pc # "idle" => clock <= frame.timeout
    /\ (Ended /\ proc.state = "killed") => frame.result = TimeoutError
    /\ Ended => proc.state \in {"exited", "killed"}

\* the same, for the calls of a Console without live output
C11_TimeoutEnforcedBuffered == frame.live_output \/ C11_TimeoutEnforced

\* a call with live output that is still reading the child's output after its timeout
C11_LiveOutputBlocksPastTimeout ==
    /\ frame.live_output /\ frame.pc = "readline"
    /\ proc.state = "running"
    /\ clock > frame.timeout

\* C12: when the command exits with a nonzero code, a call with can_fail
\* false raises a RuntimeError whose message names the command and the exit
\* code, or names a placeholder instead of the command when secret is set
\* (the command is then neither in the error nor in the log); a call with
\* can_fail true returns the captured output.
C12_NonzeroExit ==
    (Ended /\ proc.state = "exited" /\ proc.returncode # 0) =>
        IF frame.can_fail
        THEN frame.result = Return(str_strip(frame.outs))
        ELSE /\ frame.result.kind = "raise"
             /\ frame.result.type = "RuntimeError"
             /\ ToString(proc.returncode) \in Range(frame.result.message)
             /\ IF Truthy(frame.secret)
                THEN /\ frame.command \notin Range(frame.result.message)
                     /\ \A i \in 1..Len(log) : frame.command \notin Range(log[i][2])
                ELSE frame.command \in Range(frame.result.message)

\* the same, for the calls whose `secret` is False or a text
C12_NonzeroExitUnlessSecretIsTrue ==
    frame.secret = PyBool(TRUE) \/ C12_NonzeroExit

Commands_issued(command) == {i \in 1..Len(issued) : issued[i][1] = command}

\* a container bearing container_name existed when the session was constructed
NameTaken == \E c \in session.before : c.name = session.container_name

\* C13: constructing a Docker session when a container bearing
\* container_name already exists raises before any `docker run` is issued,
\* and the release of that failed session issues no stop and no remove: the
\* containers stay as they were.
C13_ExistingNameRaisesBeforeRun ==
    (session.pc # "none" /\ NameTaken) =>
        /\ session.pc \in {"id -u", "id -g", "docker container ps", "failed", "released"}
        /\ session.pc \in {"failed", "released"} => session.error # ""
        /\ session.docker_sha = PyNone
        /\ Commands_issued("docker run --name") = {}
        /\ Commands_issued("docker stop --time=1") = {}
        /\ Commands_issued("docker rm -f") = {}
        /\ containers = session.before

C13_Witness ==
    /\ NameTaken
    /\ session.pc = "released"
    /\ session.error = "RuntimeError: Container with name already exists"
    /\ ~session.keep_alive
    /\ \E c \in containers : c.name = session.container_name /\ ~c.running

\* the session holds a container: its constructor has resolved the identifier
HoldsContainer == Truthy(session.docker_sha)

\* C14: on release of a session that holds a container, with keep_alive
\* false the container is stopped (1-second grace) and then force-removed,
\* each exactly once and also when the stop command fails; with keep_alive
\* true neither command is issued and the container stays running.
C14_CleanupOnRelease ==
    (session.pc = "released" /\ HoldsContainer) =>
        IF session.keep_alive
        THEN /\ Commands_issued("docker stop --time=1") = {}
             /\ Commands_issued("docker rm -f") = {}
             /\ Container(session.container_name, TRUE) \in containers
        ELSE /\ Cardinality(Commands_issued("docker stop --time=1")) = 1
             /\ Cardinality(Commands_issued("docker rm -f")) = 1
             /\ \A i \in Commands_issued("docker stop --time=1"),
                   j \in Commands_issued("docker rm -f") :
                     /\ i < j
                     /\ issued[i][2] = session.docker_sha.str
                     /\ issued[j][2] = session.docker_sha.str

\* the same, for the releases whose stop command succeeds
C14_CleanupUnlessStopFails ==
    session.error = "RuntimeError: docker stop" \/ C14_CleanupOnRelease

FourKeys == {"model", "performance", "metric", "status"}

\* the attributes the last writer had to write
Expected ==
    LET kept(item) == ~wrote.multiple_results \/ item[1] \notin FourKeys
    IN  SelectSeq(wrote.attributes, kept)

\* C15: generate_json writes every attribute of the record when
\* multiple_results is false, and every attribute except model, performance,
\* metric and status when it is true; generate_report leaves the same four
\* out of the row (and of the header) it writes.
C15_FourKeysExcluded ==
    /\ wrote.method = "generate_json" =>
         /\ json_file.exists
         /\ json_file.content = Expected
         /\ wrote.multiple_results => Range(Keys(json_file.content)) \cap FourKeys = {}
         /\ ~wrote.multiple_results =>
                Range(Keys(json_file.content)) = Range(Keys(wrote.attributes))
    /\ wrote.method = "generate_report" =>
         LET row == report_file.rows[Len(report_file.rows)]
         IN  /\ Len(report_file.rows) = Len(wrote.report_before.rows) + 1
             /\ Len(row) = Len(Expected)
             /\ \A i \in 1..Len(row) : row[i] = CsvField(Expected[i][2])
             /\ ~wrote.report_before.exists => report_file.header = Keys(Expected)

C15_Witness ==
    /\ wrote.method = "generate_report" /\ wrote.multiple_results
    /\ json_file.exists /\ Len(json_file.content) = Len(RunDetailsKeys) + 1
    /\ Len(report_file.header) = Len(RunDetailsKeys)
    /\ Len(report_file.rows) = 2
    /\ Len(report_file.rows[2]) = Len(RunDetailsKeys) - 4 + 1
    /\ HasKey(wrote.attributes, "notes")
    /\ Get(wrote.attributes, "status") = Str("SUCCESS")

BothDone == \A p \in Callers : callers[p].pc = "done"

\* the rows a caller's own call adds to the report it read
OwnRows(p) ==
    SubSeq(to_csv(callers[p].res.df).rows, Len(callers[p].perf_csv_df.rows) + 1,
           Len(callers[p].res.df.rows))

\* C16: two update_perf_csv calls that overlap on one report path are
\* unsafe.  Each reads the whole file and later rewrites it whole, so once
\* both have ended the report is what the last writer made of what it had
\* read: if it read before the other wrote, the report holds the last
\* writer's new rows only and the other call's rows are lost.
C16_LastWriterWins ==
    BothDone =>
        LET winner == writes[2]
            loser == writes[1]
        IN  /\ perf_csv = to_csv(callers[winner].res.df)
            /\ callers[winner].seen = 0 => perf_csv.rows = OwnRows(winner)
            /\ callers[winner].seen = 1 => perf_csv.rows = OwnRows(loser) \o OwnRows(winner)

\* both calls succeeded, and the report holds the rows of one of them only
C16_Witness ==
    /\ BothDone
    /\ callers[1].call.single_result.given
    /\ callers[2].call.exception_result.given
    /\ writes = <<1, 2>>
    /\ Len(perf_csv.rows) = 1
    /\ Cell(perf_csv, perf_csv.rows[1], "model") = "broken"

\* the same call with failed_result given if it was not, and not given if it was
OtherFailedResult(call) ==
    [call EXCEPT !.failed_result = IF @.given THEN NotGiven ELSE Given(<<>>)]

\* what a call makes of the two files, and the error it ends with
Outcome(report, side, call) ==
    LET res == run_handler(read_report(report), call)
    IN  [perf_csv       |-> IF res.err = "ok" THEN to_csv(res.df) ELSE report,
         perf_entry_csv |-> IF res.entry.exists THEN res.entry ELSE side,
         err            |-> res.err]

C19_RaisingCallLeavesReport ==
    /\ Raised => perf_csv = last.perf_csv_before
    /\ (Called /\ perf_csv # last.perf_csv_before) => Succeeded

\* a call on an existing report that raised for a key its artifact lacks
C19_Witness ==
    /\ Raised
    /\ last.err = "KeyError: tags"
    /\ last.perf_csv_before.exists
    /\ Len(perf_csv.rows) = 1
    /\ perf_csv = last.perf_csv_before

\* C18: flatten_tags is idempotent.  On a dict whose tags is a text it
\* changes nothing; on one whose tags is a list it puts the items, joined by
\* commas, in its place (["a", "b"] becomes "a,b"); a second application
\* changes nothing more; no other item of the dict is touched.
C18_FlattenTagsIdempotent ==
    Len(trail) >= 2 =>
        LET before == trail[1]
            after == trail[2]
            tags == Get(before, "tags")
        IN  /\ Keys(after) = Keys(before)
            /\ \A i \in 1..Len(before) : before[i][1] # "tags" => after[i] = before[i]
            /\ IsStr(tags) => after = before
            /\ IsList(tags) => IsStr(Get(after, "tags"))
            /\ tags = PyList(<<>>) => Get(after, "tags") = Str("")
            /\ tags = PyList(<<Str("b")>>) => Get(after, "tags") = Str("b")
            /\ tags = PyList(<<Str("a"), Str("b")>>) => Get(after, "tags") = Str("a,b")
            /\ tags = PyList(<<PyInt(1), Str("a")>>) => Get(after, "tags") = Str("1,a")
            /\ Len(trail) >= 3 => trail[3] = after

C18_Witness ==
    /\ Len(trail) = 3
    /\ trail[1] = << <<"model", Str("resnet")>>, <<"status", Str("SUCCESS")>>,
                     <<"tags", PyList(<<Str("a"), Str("b")>>)>> >>
    /\ trail[3] = << <<"model", Str("resnet")>>, <<"status", Str("SUCCESS")>>,
                     <<"tags", Str("a,b")>> >>

\* the rows the report had before the last call, as they are in it now, cut
\* to the columns it had
OldRows ==
    [i \in 1..Len(last.perf_csv_before.rows) |->
        SubSeq(perf_csv.rows[i], 1, Len(last.perf_csv_before.header))]

KeepsHeaderAndCount ==
    /\ Len(perf_csv.rows) >= Len(last.perf_csv_before.rows)
    /\ SubSeq(perf_csv.header, 1, Len(last.perf_csv_before.header))
          = last.perf_csv_before.header

\* C20: the report is append-only: after a successful call the rows it had
\* are all still there, unchanged and in the same order, as a prefix of the
\* new report (each with the text it had under every column it had), and the
\* rows the call added follow them.
C20_AppendOnly ==
    (Succeeded /\ last.perf_csv_before.exists) =>
        /\ KeepsHeaderAndCount
        /\ OldRows = last.perf_csv_before.rows

\* the same, with a number taken for unchanged when it is written otherwise (10 as 10.0)
C20_AppendOnlyUpToNumberFormat ==
    (Succeeded /\ last.perf_csv_before.exists) =>
        /\ KeepsHeaderAndCount
        /\ \A i \in 1..Len(last.perf_csv_before.rows) :
             \A j \in 1..Len(last.perf_csv_before.header) :
                SameValue(perf_csv.rows[i][j], last.perf_csv_before.rows[i][j])

\* a report whose first row read 10 and reads 10.0 after a second call
C20_RowRewritten ==
    /\ Succeeded
    /\ last.handler = "multiple"
    /\ Len(last.perf_csv_before.rows) = 1
    /\ Cell(last.perf_csv_before, last.perf_csv_before.rows[1], "performance") = "10"
    /\ Cell(perf_csv, perf_csv.rows[1], "performance") = "10.0"

(* ============================ the claim C21 ============================ *)

\* `docker run` has succeeded for a session that is not to be kept alive
RunSucceeded == session.pc = "docker ps" /\ ~session.keep_alive

\* the daemon holds no container of the session's name
Removed == \A c \in containers : c.name # session.container_name

\* one of the two commands of __del__ has itself failed
CleanupCommandFailed ==
    session.error \in {"RuntimeError: docker stop", "RuntimeError: docker rm"}

\* C21: whenever the `docker run` of a session with keep_alive false has
\* succeeded, the container is eventually removed, also when resolving its
\* identifier raises afterwards (a `docker stop` or `docker rm` that itself
\* fails is not held against the session)
C21_StartedContainerIsRemoved == RunSucceeded ~> (Removed \/ CleanupCommandFailed)

\* the same, from the point where the identifier has been resolved
C21_RemovedOnceIdentifierResolved ==
    (session.pc = "ready" /\ ~session.keep_alive) ~> (Removed \/ CleanupCommandFailed)

\* the session has been released with its container still running: the
\* identifier was never resolved, so __del__ issued neither stop nor rm
C21_Leaked ==
    /\ session.pc = "released"
    /\ ~session.keep_alive
    /\ session.error = "RuntimeError: docker ps"
    /\ session.docker_sha = PyNone
    /\ Container(session.container_name, TRUE) \in containers
    /\ Commands_issued("docker stop --time=1") = {}
    /\ Commands_issued("docker rm -f") = {}

====
